---- MODULE Spec2Model ----
(***************************************************************************)
(* The inbound path of a WebSocket connection: Conn.readFrame,             *)
(* Conn.readControl, Conn.checkMask, Conn.readMessage, Conn.emitMessage    *)
(* and Conn.dispatch, driven by frames that the peer puts on the wire.     *)
(***************************************************************************)
EXTENDS Integers, Sequences, FiniteSets, TLC

(***************************************************************************)
(* Bounds of the model.                                                    *)
(***************************************************************************)
\* longest payload of a frame whose bytes are enumerated
MaxLen == 1
\* number of frames the peer sends on one connection
MaxFrames == 3
\* only the first FaultWindow frames of a connection may be malformed, long or cut short
FaultWindow == 2
\* the small and the large value of Config.ReadMaxPayloadSize
SmallMax == 2
LargeMax == 130
\* payload length of a long frame (extended 16-bit length on the wire)
LongLen == 126
\* largest capacity of readQueue
MaxGoLimit == 1
\* most subprotocols a client names in its request
MaxProtocols == 2
\* the status of a response that refuses the upgrade
StatusOK == 200
\* a strictly positive value a user gives a size, limit or timeout field
UserSize == 7
\* the window bits a user gives are 0 or lie in LowBits..HighBits
LowBits == 7
HighBits == 16
\* the largest PoolSize a user gives
MaxPool == 5
\* a compression level a user gives
UserLevel == 6
\* most entries of a ResponseHeader a user gives
MaxHeaders == 2

(***************************************************************************)
(* Program constants.                                                      *)
(***************************************************************************)
OpcodeContinuation == 0
OpcodeText == 1
OpcodeBinary == 2
OpcodeCloseConnection == 8
OpcodePing == 9
OpcodePong == 10
\* an opcode outside the closed set
OpcodeReserved == 3

ThresholdV1 == 125

\* http.StatusSwitchingProtocols
StatusSwitchingProtocols == 101

\* the defaults of option.go: flate.BestSpeed, 16 * 1024 * 1024, 4 * 1024, and
\* 5 * time.Second in milliseconds
defaultReadAsyncGoLimit == 8
defaultCompressLevel == 1
defaultReadMaxPayloadSize == 16777216
defaultWriteMaxPayloadSize == 16777216
defaultCompressThreshold == 512
defaultCompressorPoolSize == 32
defaultReadBufferSize == 4096
defaultWriteBufferSize == 4096
defaultHandshakeTimeout == 5000

\* errors: the close code and what the error wraps
Nil == [code |-> 0, cause |-> "nil"]
CloseNormalClosure == [code |-> 1000, cause |-> ""]
CloseProtocolError == [code |-> 1002, cause |-> ""]
CloseUnsupportedData == [code |-> 1007, cause |-> ""]
CloseMessageTooLarge == [code |-> 1009, cause |-> ""]
ErrIO == [code |-> 0, cause |-> "io"]
NewError(status, cause) == [code |-> status.code, cause |-> cause]

\* no message
NoMsg == [Opcode |-> -1, Data |-> <<>>]
Message(opcode, data) == [Opcode |-> opcode, Data |-> data]

(***************************************************************************)
(* Bytes and pure helpers.                                                 *)
(***************************************************************************)
\* the lead byte and the continuation byte of U+00E9; Filler is 'A'
Bytes == {195, 169}
Filler == 65
\* mask keys
MaskKeys == {<<0, 0, 0, 0>>, <<134, 134, 1, 255>>}
NoKey == <<0, 0, 0, 0>>

Bit(x, i) == (x \div (2 ^ i)) % 2

Xor8(a, b) ==
  LET d(i) == ((Bit(a, i) + Bit(b, i)) % 2) * (2 ^ i)
  IN d(0) + d(1) + d(2) + d(3) + d(4) + d(5) + d(6) + d(7)

\* XOR the payload with the 4-byte key cycled by index mod 4
MaskXOR(b, key) == [i \in 1..Len(b) |-> Xor8(b[i], key[((i - 1) % 4) + 1])]

IsCont(b) == b >= 128 /\ b <= 191

\* number of bytes of the well-formed UTF-8 sequence that starts at s[i], 0 if none
Utf8Width(s, i) ==
  LET n == Len(s)
      b0 == s[i]
      b1 == IF i + 1 <= n THEN s[i + 1] ELSE -1
      b2 == IF i + 2 <= n THEN s[i + 2] ELSE -1
      b3 == IF i + 3 <= n THEN s[i + 3] ELSE -1
  IN  IF b0 < 128 THEN 1
      ELSE IF b0 >= 194 /\ b0 <= 223 THEN (IF IsCont(b1) THEN 2 ELSE 0)
      ELSE IF b0 = 224 THEN (IF b1 >= 160 /\ b1 <= 191 /\ IsCont(b2) THEN 3 ELSE 0)
      ELSE IF (b0 >= 225 /\ b0 <= 236) \/ b0 = 238 \/ b0 = 239
           THEN (IF IsCont(b1) /\ IsCont(b2) THEN 3 ELSE 0)
      ELSE IF b0 = 237 THEN (IF b1 >= 128 /\ b1 <= 159 /\ IsCont(b2) THEN 3 ELSE 0)
      ELSE IF b0 = 240
           THEN (IF b1 >= 144 /\ b1 <= 191 /\ IsCont(b2) /\ IsCont(b3) THEN 4 ELSE 0)
      ELSE IF b0 >= 241 /\ b0 <= 243
           THEN (IF IsCont(b1) /\ IsCont(b2) /\ IsCont(b3) THEN 4 ELSE 0)
      ELSE IF b0 = 244
           THEN (IF b1 >= 128 /\ b1 <= 143 /\ IsCont(b2) /\ IsCont(b3) THEN 4 ELSE 0)
      ELSE 0

\* utf8.Valid: every byte that is not a continuation byte starts a well-formed sequence,
\* and every continuation byte lies inside the sequence of the nearest such byte before it
Utf8Valid(s) ==
  \A i \in 1..Len(s) :
     IF IsCont(s[i])
     THEN \E j \in 1..(i - 1) :
             /\ i - j <= 3
             /\ ~IsCont(s[j])
             /\ \A k \in (j + 1)..i : IsCont(s[k])
             /\ Utf8Width(s, j) > i - j
     ELSE Utf8Width(s, i) > 0

\* internal.CheckEncoding
CheckEncoding(enabled, opcode, payload) ==
  IF enabled /\ opcode = OpcodeText THEN Utf8Valid(payload) ELSE TRUE

\* Opcode.isDataFrame
isDataFrame(opcode) == opcode \in {OpcodeContinuation, OpcodeText, OpcodeBinary}

(***************************************************************************)
(* State.                                                                  *)
(***************************************************************************)
VARIABLES
  isServer,           \* Conn.isServer
  config,             \* Conn.config: ReadMaxPayloadSize, CheckUtf8Enabled, ParallelEnabled, ParallelGolimit
  pdEnabled,          \* option.PermessageDeflate.Enabled of the endpoint that made the connection
  continuationFrame,  \* Conn.continuationFrame: initialized, opcode, buffer
  fh,                 \* Conn.fh, the header of the frame parsed last
  readQueue,          \* number of slots of Conn.readQueue that are taken
  pc,                 \* where the reader task is: "read", "handler" (inside OnMessage, called
                      \* by dispatch on the reader task), "emit" (blocked in readQueue.Go),
                      \* "done", or "crashed" (a panic left dispatch and unwound the task)
  running,            \* number of OnMessage calls that have started and not returned
  ret,                \* how the dispatch call that ended last ended; a panic that left
                      \* dispatch on a goroutine of readQueue ends the process
  completed,          \* the messages readFrame has returned, in order
  delivered,          \* the messages OnMessage has been called with, in order
  held,               \* the message the reader holds while it is blocked in readQueue.Go
  rf,                 \* what the last readFrame call returned: msg, err
  err,                \* what the last readMessage call returned
  calls,              \* the handler invocations the last readMessage call made, in order
  last,               \* the last readFrame call: what the transport delivered, the declared length,
                      \* the line of the return, the payload bytes read, the peer's payload
  pool,               \* the last readFrame call: what became of the buffer of binaryPool
  sent,               \* what the peer has sent of the message in flight, before masking
  nFrames,            \* number of frames the peer has sent
  connector,          \* the client's connector while NewClient or NewClientFromConn runs:
                      \* where the call is, its option, its transport, its key, the response
  returned,           \* what NewClient or NewClientFromConn returned: client, resp, err
  given,              \* the option a caller hands to initServerOption or initClientOption
  option,             \* the option after the initialisation
  snapshot            \* the Config that getConfig returns for it

readerVars == <<isServer, config, pdEnabled, continuationFrame, fh, readQueue, pc, running,
                ret, completed, delivered, held, rf, err, calls, last, pool, sent,
                nFrames>>

handshakeVars == <<connector, returned>>

optionVars == <<given, option, snapshot>>

vars == <<readerVars, handshakeVars, optionVars>>

Call(h, opcode, payload) == [h |-> h, opcode |-> opcode, payload |-> payload]

\* continuationFrame.reset
reset == [initialized |-> FALSE, opcode |-> 0, buffer |-> <<>>]

NoHeader == [fin |-> FALSE, rsv1 |-> FALSE, rsv2 |-> FALSE, rsv3 |-> FALSE, opcode |-> 0,
             mask |-> FALSE, lengthCode |-> 0]

(***************************************************************************)
(* The frames the peer can put on the wire.  payload is the payload before *)
(* masking; io says whether the transport delivers the header and the body.*)
(***************************************************************************)
RECURSIVE SeqsOfLen(_, _)
SeqsOfLen(S, n) ==
  IF n = 0 THEN {<<>>}
  ELSE {Append(s, b) : s \in SeqsOfLen(S, n - 1), b \in S}

\* the payloads of declared length n: every byte sequence if short, one filler otherwise
Payloads(n) == IF n <= MaxLen THEN SeqsOfLen(Bytes, n) ELSE {[i \in 1..n |-> Filler]}

Lengths == (0..MaxLen) \cup {LongLen}

Opcodes == {OpcodeContinuation, OpcodeText, OpcodeBinary, OpcodeReserved,
            OpcodeCloseConnection, OpcodePing, OpcodePong}

\* at most one reserved bit is set
Reserved == {<<FALSE, FALSE, FALSE>>, <<TRUE, FALSE, FALSE>>, <<FALSE, TRUE, FALSE>>,
             <<FALSE, FALSE, TRUE>>}

\* frameHeader.Parse: the 7-bit length code and the extended length of a payload of n bytes
LengthCode(n) == IF n <= ThresholdV1 THEN n ELSE IF n <= 65535 THEN 126 ELSE 127

\* the header fields frameHeader.Parse stores in Conn.fh; the mask key is used up
\* inside the call that parsed it
Header(f) == [fin |-> f.fin, rsv1 |-> f.rsv1, rsv2 |-> f.rsv2, rsv3 |-> f.rsv3,
              opcode |-> f.opcode, mask |-> f.mask, lengthCode |-> f.lengthCode]

\* the payload bytes as they are on the wire
Wire(f) == IF f.mask THEN MaskXOR(f.payload, f.maskKey) ELSE f.payload

(***************************************************************************)
(* Conn.checkMask                                                          *)
(***************************************************************************)
\* checkMask, had only the server side been checked
checkMask_ServerOnly(srv, enabled) ==
  IF srv /\ ~enabled THEN CloseProtocolError ELSE Nil

checkMask(srv, enabled) ==
  IF (srv /\ ~enabled) \/ (~srv /\ enabled) THEN CloseProtocolError ELSE Nil

(***************************************************************************)
(* Conn.emitClose: decode the close payload, call OnClose, report the      *)
(* close to the read loop as an error.                                     *)
(***************************************************************************)
emitClose(payload) ==
  [err |-> NewError(CloseNormalClosure, "close frame"),
   calls |-> <<Call("OnClose", OpcodeCloseConnection, payload)>>]

(***************************************************************************)
(* Conn.readControl: the result is the error, the handler calls made, the  *)
(* number of payload bytes read and the line of the return.                *)
(***************************************************************************)
\* controlPayload, had the unmasking been left out
controlPayload_NotUnmasked(f, n) == IF n > 0 THEN SubSeq(Wire(f), 1, n) ELSE <<>>

\* the payload handed to the handler: n bytes off the wire, unmasked if the mask bit is set
controlPayload(f, n) ==
  IF n > 0
  THEN (IF f.mask THEN MaskXOR(SubSeq(Wire(f), 1, n), f.maskKey) ELSE SubSeq(Wire(f), 1, n))
  ELSE <<>>

\* a control frame must not be fragmented
controlFragmented(f) == ~f.fin

\* controlTooLong, had the 7-bit length code been compared with its own largest value
controlTooLong_LengthCode(n) == n > 127

\* a control frame carries at most ThresholdV1 bytes
controlTooLong(n) == n > ThresholdV1

readControl(f) ==
  LET n == f.lengthCode
      payload == controlPayload(f, n)
  IN  IF controlFragmented(f)
      THEN [err |-> CloseProtocolError, calls |-> <<>>, read |-> 0, exit |-> 28]
      ELSE IF controlTooLong(n)
      THEN [err |-> CloseProtocolError, calls |-> <<>>, read |-> 0, exit |-> 35]
      ELSE IF n > 0 /\ f.io = "read"
      THEN [err |-> ErrIO, calls |-> <<>>, read |-> 0, exit |-> 44]
      ELSE IF f.opcode = OpcodePing
      THEN [err |-> Nil, calls |-> <<Call("OnPing", OpcodePing, payload)>>,
            read |-> n, exit |-> 55]
      ELSE IF f.opcode = OpcodePong
      THEN [err |-> Nil, calls |-> <<Call("OnPong", OpcodePong, payload)>>,
            read |-> n, exit |-> 58]
      ELSE IF f.opcode = OpcodeCloseConnection
      THEN [err |-> emitClose(payload).err, calls |-> emitClose(payload).calls,
            read |-> n, exit |-> 60]
      ELSE [err |-> NewError(CloseProtocolError, "unexpected opcode"), calls |-> <<>>,
            read |-> n, exit |-> 63]

(***************************************************************************)
(* Conn.readFrame on frame f with continuation state cf: the message and   *)
(* error returned, the continuation state left behind, the handler calls   *)
(* made, the payload bytes read and the line of the return.                *)
(***************************************************************************)
Ret(msg, e, cf, cl, rd, line) ==
  [msg |-> msg, err |-> e, cf |-> cf, calls |-> cl, read |-> rd, exit |-> line]

\* declaredTooLarge, had the check of the declared length been left out
declaredTooLarge_Unchecked(cfg, contentLength) == FALSE

\* the declared length is over the limit
declaredTooLarge(cfg, contentLength) == contentLength > cfg.ReadMaxPayloadSize

\* reservedBits, had RSV1 been left to a compression extension
reservedBits_Rsv1Free(f) == f.rsv2 \/ f.rsv3

\* a reserved bit is set
reservedBits(f) == f.rsv1 \/ f.rsv2 \/ f.rsv3

\* the payload read off the wire, unmasked if the mask bit is set
dataPayload(f) == IF f.mask THEN MaskXOR(Wire(f), f.maskKey) ELSE Wire(f)

\* continuationBusy, had only fragmented newcomers been refused
continuationBusy_FinAllowed(cf, f) ==
  f.opcode # OpcodeContinuation /\ cf.initialized /\ ~f.fin

\* a new data message starts while another one is being reassembled
continuationBusy(cf, f) == f.opcode # OpcodeContinuation /\ cf.initialized

\* the first frame of a fragmented message opens the continuation state
openContinuation(cf, f) ==
  IF ~f.fin /\ f.opcode # OpcodeContinuation
  THEN [initialized |-> TRUE, opcode |-> f.opcode, buffer |-> <<>>]
  ELSE cf

\* writeBuffer, had the fragment been put in front of the buffer
writeBuffer_Prepend(cf, p) == [cf EXCEPT !.buffer = p \o cf.buffer]

\* continuationFrame.buffer.Write
writeBuffer(cf, p) == [cf EXCEPT !.buffer = cf.buffer \o p]

\* bufferTooLarge, had the comparison been off by one
bufferTooLarge_OffByOne(cfg, cf) == Len(cf.buffer) > cfg.ReadMaxPayloadSize + 1

\* the reassembled payload is over the limit
bufferTooLarge(cfg, cf) == Len(cf.buffer) > cfg.ReadMaxPayloadSize

\* the message delivered when the last fragment is in
reassembled(cf) == Message(cf.opcode, cf.buffer)

readFrame(srv, cfg, cf, f) ==
  LET contentLength == f.contentLength
      p == dataPayload(f)
      opened == openContinuation(cf, f)
      written == writeBuffer(opened, p)
  IN  IF f.io = "parse" THEN Ret(NoMsg, ErrIO, cf, <<>>, 0, 74)
      ELSE IF declaredTooLarge(cfg, contentLength)
      THEN Ret(NoMsg, CloseMessageTooLarge, cf, <<>>, 0, 77)
      ELSE IF reservedBits(f)
      THEN Ret(NoMsg, CloseProtocolError, cf, <<>>, 0, 88)
      ELSE IF checkMask(srv, f.mask) # Nil
      THEN Ret(NoMsg, checkMask(srv, f.mask), cf, <<>>, 0, 93)
      ELSE IF ~isDataFrame(f.opcode)
      THEN LET c == readControl(f) IN Ret(NoMsg, c.err, cf, c.calls, c.read, c.exit)
      ELSE IF f.io = "read" THEN Ret(NoMsg, ErrIO, cf, <<>>, 0, 108)
      ELSE IF continuationBusy(cf, f)
      THEN Ret(NoMsg, CloseProtocolError, cf, <<>>, contentLength, 115)
      ELSE IF f.fin /\ f.opcode # OpcodeContinuation
      THEN Ret(Message(f.opcode, p), Nil, cf, <<>>, contentLength, 121)
      ELSE IF ~opened.initialized
      THEN Ret(NoMsg, CloseProtocolError, opened, <<>>, contentLength, 132)
      ELSE IF bufferTooLarge(cfg, written)
      THEN Ret(NoMsg, CloseMessageTooLarge, written, <<>>, contentLength, 137)
      ELSE IF ~f.fin
      THEN Ret(NoMsg, Nil, written, <<>>, contentLength, 140)
      ELSE Ret(reassembled(written), Nil, reset, <<>>, contentLength, 145)

(***************************************************************************)
(* The payload buffer of readFrame, by the line readFrame returns at.  The *)
(* buffer is taken from binaryPool at line 102, so by every return below   *)
(* it; closer.Data is the buffer, or nil once line 120 has run, which only *)
(* the return of line 121 follows; the deferred closer.Close gives what    *)
(* closer.Data holds back to binaryPool, nothing if it is nil; the Message *)
(* of line 121 holds the buffer, the Message of line 143 holds the buffer  *)
(* of continuationFrame.                                                   *)
(***************************************************************************)
NoBuffer == [acquired |-> FALSE, released |-> 0, returned |-> FALSE]

\* closer.Data at the return, had line 120 been left out
closerData_Kept(exit) == "buf"

\* closer.Data at the return
closerData(exit) == IF exit = 121 THEN "nil" ELSE "buf"

ownership(exit) ==
  IF exit <= 102 THEN NoBuffer
  ELSE [acquired |-> TRUE,
        released |-> IF closerData(exit) = "nil" THEN 0 ELSE 1,
        returned |-> exit = 121]

(***************************************************************************)
(* Conn.dispatch: OnMessage is called with the message.                    *)
(***************************************************************************)
dispatch(msg) == <<Call("OnMessage", msg.Opcode, msg.Data)>>

(***************************************************************************)
(* Conn.dispatch coming to its end: the deferred call of config.Recovery   *)
(* runs whether OnMessage returned or panicked.  A panic stops unwinding   *)
(* only if the deferred function calls recover(); then dispatch returns    *)
(* the zero value of its result, nil.  Recovery is "noop", the function    *)
(* with the empty body, or "recover", a function that calls recover().     *)
(***************************************************************************)
NoRet == [panicked |-> FALSE, recovery |-> FALSE, propagated |-> FALSE]

dispatchReturn(recovery, panicked) ==
  [panicked |-> panicked, recovery |-> TRUE,
   propagated |-> panicked /\ recovery # "recover"]

(***************************************************************************)
(* channel.Go on readQueue with q slots taken: take a slot, blocking while *)
(* none is free, and run dispatch on a goroutine of its own that frees the *)
(* slot at the end.                                                        *)
(***************************************************************************)
\* the capacity readQueue is made with, had it been one more than the limit
capacity_PlusOne(cfg) == cfg.ParallelGolimit + 1

\* the capacity readQueue is made with
capacity(cfg) == cfg.ParallelGolimit

Go(cfg, q, msg) ==
  IF q < capacity(cfg)
  THEN [err |-> Nil, calls |-> dispatch(msg), readQueue |-> q + 1, pc |-> "read",
        held |-> NoMsg]
  ELSE [err |-> Nil, calls |-> <<>>, readQueue |-> q, pc |-> "emit", held |-> msg]

(***************************************************************************)
(* Conn.emitMessage: the error returned, the handler calls started, the    *)
(* slots taken, and where the reader is afterwards.                        *)
(***************************************************************************)
\* emitMessage, had the encoding check been left out
emitMessage_Unchecked(cfg, q, msg) ==
  IF cfg.ParallelEnabled
  THEN Go(cfg, q, msg)
  ELSE [err |-> Nil, calls |-> dispatch(msg), readQueue |-> q, pc |-> "handler",
        held |-> NoMsg]

\* emitMessage, had it handed every message to readQueue
emitMessage_AlwaysQueue(cfg, q, msg) ==
  IF ~CheckEncoding(cfg.CheckUtf8Enabled, msg.Opcode, msg.Data)
  THEN [err |-> NewError(CloseUnsupportedData, "ErrTextEncoding"), calls |-> <<>>,
        readQueue |-> q, pc |-> "done", held |-> NoMsg]
  ELSE Go(cfg, q, msg)

emitMessage(cfg, q, msg) ==
  IF ~CheckEncoding(cfg.CheckUtf8Enabled, msg.Opcode, msg.Data)
  THEN [err |-> NewError(CloseUnsupportedData, "ErrTextEncoding"), calls |-> <<>>,
        readQueue |-> q, pc |-> "done", held |-> NoMsg]
  ELSE IF cfg.ParallelEnabled
  THEN Go(cfg, q, msg)
  ELSE [err |-> Nil, calls |-> dispatch(msg), readQueue |-> q, pc |-> "handler",
        held |-> NoMsg]

(***************************************************************************)
(* The peer's own record of the fragmented message it is sending.          *)
(***************************************************************************)
Idle == [active |-> FALSE, done |-> FALSE, opcode |-> 0, payload |-> <<>>, ctl |-> 0]

\* the frame arrives whole, with the mask bit of the peer's role and no reserved bit
WellFormed(srv, f) == f.io = "ok" /\ ~f.rsv1 /\ ~f.rsv2 /\ ~f.rsv3 /\ f.mask = srv

Track(srv, cfg, s, f) ==
  IF ~WellFormed(srv, f) THEN Idle
  ELSE IF f.opcode \in {OpcodeText, OpcodeBinary} /\ ~f.fin /\ ~s.active
  THEN [active |-> TRUE, done |-> FALSE, opcode |-> f.opcode, payload |-> f.payload, ctl |-> 0]
  ELSE IF f.opcode = OpcodeContinuation /\ s.active
  THEN [s EXCEPT !.active = ~f.fin, !.done = f.fin, !.payload = s.payload \o f.payload]
  ELSE IF /\ f.opcode \in {OpcodePing, OpcodePong} /\ f.fin /\ s.active
          /\ f.contentLength <= ThresholdV1 /\ f.contentLength <= cfg.ReadMaxPayloadSize
  THEN [s EXCEPT !.ctl = 1]
  ELSE Idle

(***************************************************************************)
(* Init: a connection right after the handshake.  Settings lists the       *)
(* settings <<isServer, large ReadMaxPayloadSize, CheckUtf8Enabled,        *)
(* ParallelEnabled, PermessageDeflate.Enabled, Recovery given by the       *)
(* user>> of the connections explored: every two of the six take every     *)
(* combination of values.                                                  *)
(***************************************************************************)
Settings ==
  { <<FALSE, FALSE, FALSE, FALSE, FALSE, FALSE>>,
    <<TRUE, TRUE, FALSE, FALSE, TRUE, TRUE>>,
    <<TRUE, FALSE, TRUE, FALSE, TRUE, FALSE>>,
    <<TRUE, FALSE, FALSE, TRUE, FALSE, TRUE>>,
    <<FALSE, TRUE, TRUE, TRUE, TRUE, FALSE>>,
    <<FALSE, TRUE, TRUE, TRUE, FALSE, TRUE>> }

\* initServerOption and initClientOption: a nil Recovery becomes the function with the
\* empty body
initRecovery(r) == IF r = "nil" THEN "noop" ELSE r

\* a connection with the settings s and the limit g, right after the handshake
Connection(s, g) ==
  /\ isServer = s[1]
  /\ config = [ReadMaxPayloadSize |-> IF s[2] THEN LargeMax ELSE SmallMax,
               CheckUtf8Enabled |-> s[3], ParallelEnabled |-> s[4],
               ParallelGolimit |-> g,
               Recovery |-> initRecovery(IF s[6] THEN "recover" ELSE "nil")]
  /\ pdEnabled = s[5]
  /\ continuationFrame = reset
  /\ fh = NoHeader
  /\ readQueue = 0
  /\ pc = "read"
  /\ running = 0
  /\ ret = NoRet
  /\ completed = <<>>
  /\ delivered = <<>>
  /\ held = NoMsg
  /\ rf = [msg |-> NoMsg, err |-> Nil]
  /\ err = Nil
  /\ calls = <<>>
  /\ last = [io |-> "none", contentLength |-> 0, exit |-> 0, read |-> 0, payload |-> <<>>]
  /\ pool = NoBuffer
  /\ sent = Idle
  /\ nFrames = 0

\* no handshake is under way
NoConnector == [pc |-> "none"]

NoReturn == [client |-> "nil", resp |-> "nil", err |-> "nil"]

\* no option is being initialised
NoOption == [role |-> "none"]

Init ==
  /\ \E s \in Settings, g \in 1..MaxGoLimit : Connection(s, g)
  /\ connector = NoConnector /\ returned = NoReturn
  /\ given = NoOption /\ option = NoOption /\ snapshot = NoOption

(***************************************************************************)
(* Conn.readMessage on the next frame of the wire: readFrame, then         *)
(* emitMessage if a message is complete.  An error ends the read loop.     *)
(***************************************************************************)
readMessageOn(f) ==
  \E r \in {readFrame(isServer, config, continuationFrame, f)} :
  \E e \in {emitMessage(config, readQueue, r.msg)} :
      /\ fh' = IF f.io = "parse" THEN fh ELSE Header(f)
      /\ continuationFrame' = r.cf
      /\ rf' = [msg |-> r.msg, err |-> r.err]
      /\ pool' = ownership(r.exit)
      /\ last' = [io |-> f.io, contentLength |-> f.contentLength, exit |-> r.exit,
                  read |-> r.read,
                  payload |-> IF WellFormed(isServer, f) THEN f.payload ELSE <<>>]
      /\ sent' = Track(isServer, config, sent, f)
      /\ nFrames' = nFrames + 1
      /\ IF r.err # Nil
         THEN /\ err' = r.err
              /\ calls' = r.calls
              /\ pc' = "done"
              /\ UNCHANGED <<readQueue, held, running, completed, delivered>>
         ELSE IF r.msg = NoMsg
         THEN /\ err' = Nil
              /\ calls' = r.calls
              /\ UNCHANGED <<pc, readQueue, held, running, completed, delivered>>
         ELSE /\ err' = e.err
              /\ calls' = e.calls
              /\ pc' = e.pc
              /\ readQueue' = e.readQueue
              /\ held' = e.held
              /\ running' = running + Len(e.calls)
              /\ completed' = Append(completed, r.msg)
              /\ delivered' = delivered \o [i \in 1..Len(e.calls) |-> r.msg]
      /\ UNCHANGED <<isServer, config, pdEnabled, ret, handshakeVars, optionVars>>

\* a frame that arrives whole, short, with the mask bit of the peer's role and no reserved bit
Plain(f) == WellFormed(isServer, f) /\ f.contentLength <= MaxLen

readMessage ==
  /\ pc = "read"
  /\ ~ret.propagated
  /\ nFrames < MaxFrames
  /\ \E fin \in BOOLEAN, rsv \in Reserved, m \in BOOLEAN, op \in Opcodes,
        n \in Lengths, k \in MaskKeys, io \in {"ok", "parse", "read"} :
       \E p \in Payloads(n) :
          LET f == [fin |-> fin, rsv1 |-> rsv[1], rsv2 |-> rsv[2], rsv3 |-> rsv[3],
                    opcode |-> op, mask |-> m, lengthCode |-> LengthCode(n),
                    contentLength |-> n, maskKey |-> k, payload |-> p, io |-> io]
          IN  /\ nFrames < FaultWindow \/ Plain(f)
              /\ io = "read" => n > 0
              /\ io = "parse" => f = [fin |-> FALSE, rsv1 |-> FALSE, rsv2 |-> FALSE,
                                      rsv3 |-> FALSE, opcode |-> 0, mask |-> FALSE,
                                      lengthCode |-> 0, contentLength |-> 0,
                                      maskKey |-> NoKey, payload |-> <<>>, io |-> "parse"]
              /\ ~m => k = NoKey
              /\ readMessageOn(f)

(***************************************************************************)
(* The reader, blocked in readQueue.Go, gets a slot and starts the handler.*)
(***************************************************************************)
emitUnblock ==
  /\ pc = "emit"
  /\ ~ret.propagated
  /\ readQueue < capacity(config)
  /\ readQueue' = readQueue + 1
  /\ calls' = calls \o dispatch(held)
  /\ running' = running + 1
  /\ delivered' = Append(delivered, held)
  /\ held' = NoMsg
  /\ pc' = "read"
  /\ UNCHANGED <<isServer, config, pdEnabled, continuationFrame, fh, rf, err, last, sent,
                 nFrames, ret, completed, pool, handshakeVars, optionVars>>

(***************************************************************************)
(* OnMessage, called by dispatch on the reader task, comes to its end:     *)
(* dispatch returns nil to emitMessage and readMessage, or the panic       *)
(* leaves dispatch and unwinds the reader task.                            *)
(***************************************************************************)
onMessageReturn ==
  /\ pc = "handler"
  /\ \E panicked \in BOOLEAN :
       \E d \in {dispatchReturn(config.Recovery, panicked)} :
          /\ ret' = d
          /\ running' = running - 1
          /\ pc' = IF d.propagated THEN "crashed" ELSE "read"
  /\ UNCHANGED <<isServer, config, pdEnabled, continuationFrame, fh, readQueue, held, rf,
                 err, calls, last, sent, nFrames, completed, delivered, pool,
                 handshakeVars, optionVars>>

(***************************************************************************)
(* OnMessage, called by dispatch on a goroutine of readQueue, comes to its *)
(* end: the goroutine frees its slot once dispatch has returned; a panic   *)
(* that leaves dispatch ends the process.                                  *)
(***************************************************************************)
handlerDone ==
  /\ readQueue > 0
  /\ ~ret.propagated
  /\ \E panicked \in BOOLEAN :
       \E d \in {dispatchReturn(config.Recovery, panicked)} :
          /\ ret' = d
          /\ running' = running - 1
          /\ readQueue' = IF d.propagated THEN readQueue ELSE readQueue - 1
  /\ UNCHANGED <<isServer, config, pdEnabled, continuationFrame, fh, pc, held, rf, err,
                 calls, last, sent, nFrames, completed, delivered, pool,
                 handshakeVars, optionVars>>

Next == readMessage \/ emitUnblock \/ onMessageReturn \/ handlerDone

Spec == Init /\ [][Next]_vars

(***************************************************************************)
(* The client handshake: NewClient, NewClientFromConn and the connector.   *)
(* A header value is the sequence of its comma-separated items; a header   *)
(* that is absent has the value <<>>.                                      *)
(***************************************************************************)
\* strings.ToLower on the words the headers are made of
ToLower(w) ==
  CASE w = "Upgrade" -> "upgrade"
    [] w = "WebSocket" -> "websocket"
    [] OTHER -> w

\* strings.EqualFold
EqualFold(a, b) == ToLower(a) = ToLower(b)

\* internal.HttpHeaderContains: one item of the value is the token, whatever the case
HttpHeaderContains(v, token) == \E i \in 1..Len(v) : EqualFold(v[i], token)

\* the whole value of a header, as strings.EqualFold gets it: a single item or none
Whole(v) == IF Len(v) = 1 THEN v[1] ELSE IF v = <<>> THEN "" ELSE "list"

\* internal.ComputeAcceptKey: base64(SHA1(key + GUID)), different for different keys
ComputeAcceptKey(key) == <<"accept", key>>

\* internal.Split: the items of the value, the empty ones dropped
Split(v) == SelectSeq(v, LAMBDA x : x # "")

\* internal.GetIntersectionElem: the first element of a that is an element of b, or ""
GetIntersectionElem(a, b) ==
  LET hits == {i \in 1..Len(a) : \E j \in 1..Len(b) : a[i] = b[j]}
  IN  IF hits = {} THEN "" ELSE a[CHOOSE i \in hits : \A k \in hits : i <= k]

\* the keys request can generate, and the one a caller can put in RequestHeader
Keys == {"key1", "key2"}

UserKey == "key0"

ClientProtocols == {"chat.v2", "chat.v1"}

RECURSIVE SeqsUpTo(_, _)
SeqsUpTo(S, n) == IF n = 0 THEN {<<>>} ELSE SeqsOfLen(S, n) \cup SeqsUpTo(S, n - 1)

\* what a caller can ask for in RequestHeader: a key of its own, subprotocols
RequestHeaders ==
  [Key : {"", UserKey}, Protocol : SeqsUpTo(ClientProtocols, MaxProtocols) \cup {<<"">>}]

NilResp == [StatusCode |-> 0]

\* the responses the server can send
Responses ==
  [StatusCode : {StatusSwitchingProtocols, StatusOK},
   Connection : {<<"Upgrade">>, <<"keep-alive", "upgrade">>, <<"close">>},
   Upgrade : {<<"websocket">>, <<"WebSocket">>, <<"h2c">>},
   Accept : {ComputeAcceptKey(k) : k \in Keys} \cup {<<>>},
   Protocol : {<<>>, <<"chat.v1">>, <<"chat.v2">>, <<"other">>, <<"other", "chat.v1">>}]

\* the transport: never made, open or closed; its deadline; the calls made on it
NoConn == [state |-> "none", deadline |-> "none", ops |-> <<>>]

\* net.Conn.SetDeadline: a failing call leaves the deadline as it was
SetDeadline(conn, d, ok) ==
  [conn EXCEPT !.deadline = IF ok THEN d ELSE @,
               !.ops = Append(@, IF d = "none" THEN "ClearDeadline" ELSE "SetDeadline")]

Close(conn) == [conn EXCEPT !.state = "closed", !.ops = Append(@, "Close")]

(***************************************************************************)
(* connector.checkHeaders                                                  *)
(***************************************************************************)
\* checkHeaders, had it left Sec-WebSocket-Accept alone
checkHeaders_AnyAccept(secWebsocketKey, resp) ==
  IF resp.StatusCode # StatusSwitchingProtocols THEN "ErrHandshake"
  ELSE IF ~HttpHeaderContains(resp.Connection, "Upgrade") THEN "ErrHandshake"
  ELSE IF ~EqualFold(Whole(resp.Upgrade), "websocket") THEN "ErrHandshake"
  ELSE "nil"

checkHeaders(secWebsocketKey, resp) ==
  IF resp.StatusCode # StatusSwitchingProtocols THEN "ErrHandshake"
  ELSE IF ~HttpHeaderContains(resp.Connection, "Upgrade") THEN "ErrHandshake"
  ELSE IF ~EqualFold(Whole(resp.Upgrade), "websocket") THEN "ErrHandshake"
  ELSE IF resp.Accept # ComputeAcceptKey(secWebsocketKey) THEN "ErrHandshake"
  ELSE "nil"

(***************************************************************************)
(* connector.getSubProtocol                                                *)
(***************************************************************************)
\* getSubProtocol, had it let a missing choice pass
getSubProtocol_Lenient(requestHeader, resp) ==
  [subprotocol |-> GetIntersectionElem(Split(requestHeader.Protocol), Split(resp.Protocol)),
   err |-> "nil"]

getSubProtocol(requestHeader, resp) ==
  LET a == Split(requestHeader.Protocol)
      b == Split(resp.Protocol)
      subprotocol == GetIntersectionElem(a, b)
  IN  IF Len(a) > 0 /\ subprotocol = ""
      THEN [subprotocol |-> "", err |-> "ErrSubprotocolNegotiation"]
      ELSE [subprotocol |-> subprotocol, err |-> "nil"]

(***************************************************************************)
(* A connector before NewClient or NewClientFromConn is called with an     *)
(* option whose RequestHeader is h.  request is what went out on the       *)
(* transport; client, resp and err are what handshake returns.             *)
(***************************************************************************)
NoRequest == [Key |-> "", Protocol |-> <<>>]

Fresh(h) ==
  [pc |-> "start", entry |-> "", RequestHeader |-> h, scheme |-> "", dialers |-> 0,
   conn |-> NoConn, secWebsocketKey |-> "", request |-> NoRequest, resp |-> NilResp,
   subprotocol |-> "", client |-> "nil", err |-> "nil"]

\* what url.Parse makes of option.Addr: an error, or a URL with this scheme
Addrs == {"invalid", "ws", "wss", "http", ""}

\* the scheme check of NewClient, had it let http through
unsupported_HttpAllowed(scheme) == scheme # "ws" /\ scheme # "wss" /\ scheme # "http"

\* the scheme check of NewClient
unsupported(scheme) == scheme # "ws" /\ scheme # "wss"

\* a return statement of NewClient or NewClientFromConn
Return(c, client, resp, e) ==
  /\ connector' = [c EXCEPT !.pc = "returned"]
  /\ returned' = [client |-> client, resp |-> resp, err |-> e]

(***************************************************************************)
(* NewClient up to the call of handshake: the address is parsed, the       *)
(* scheme checked, the dialer made and the transport opened.               *)
(***************************************************************************)
NewClient ==
  /\ connector.pc = "start"
  /\ \E url \in Addrs, dialer \in BOOLEAN, dial \in BOOLEAN :
       LET c == [connector EXCEPT !.entry = "NewClient", !.scheme = url]
           d == [c EXCEPT !.dialers = 1]
       IN  IF url = "invalid"
           THEN Return(c, "nil", NilResp, "ErrParse")
           ELSE IF unsupported(url)
           THEN Return(c, "nil", NilResp, "ErrUnsupportedProtocol")
           ELSE IF ~dialer
           THEN Return(d, "nil", NilResp, "ErrNewDialer")
           ELSE IF ~dial
           THEN Return([d EXCEPT !.conn.ops = <<"Dial">>], "nil", NilResp, "ErrDial")
           ELSE /\ connector' = [d EXCEPT !.pc = "request",
                                          !.conn = [state |-> "open", deadline |-> "none",
                                                    ops |-> <<"Dial">>]]
                /\ UNCHANGED returned
  /\ UNCHANGED <<readerVars, optionVars>>

(***************************************************************************)
(* NewClientFromConn up to the call of handshake: the caller's transport.  *)
(***************************************************************************)
NewClientFromConn ==
  /\ connector.pc = "start"
  /\ connector' = [connector EXCEPT !.entry = "NewClientFromConn", !.pc = "request",
                                    !.conn = [state |-> "open", deadline |-> "none",
                                              ops |-> <<>>]]
  /\ UNCHANGED <<returned, readerVars, optionVars>>

(***************************************************************************)
(* connector.request: the deadline is set, the request is built with the   *)
(* headers of RequestHeader and a key generated, the request is written    *)
(* and the response read.  http.NewRequestWithContext fails only for an    *)
(* address url.Parse refuses, which NewClient has returned on before.      *)
(***************************************************************************)
request ==
  /\ connector.pc = "request"
  /\ \E set \in BOOLEAN, build \in BOOLEAN, key \in Keys,
        write \in {"ok", "ErrWrite", "ErrTimeout"}, read \in {NilResp} \cup Responses :
       LET c == connector
           deadlined == SetDeadline(c.conn, "handshake", set)
           generated == IF c.secWebsocketKey = "" THEN key ELSE c.secWebsocketKey
           r == [Key |-> IF c.secWebsocketKey = "" THEN generated ELSE c.RequestHeader.Key,
                 Protocol |-> c.RequestHeader.Protocol]
           written == [deadlined EXCEPT !.ops = Append(@, "Write")]
           answered == [written EXCEPT !.ops = Append(@, "Read")]
       IN  /\ build \/ c.entry = "NewClientFromConn"
           /\ connector' =
                IF ~build
                THEN [c EXCEPT !.pc = "handshake", !.conn = deadlined, !.err = "ErrRequest"]
                ELSE IF write # "ok"
                THEN [c EXCEPT !.pc = "handshake", !.conn = written,
                               !.secWebsocketKey = generated, !.request = r, !.err = write]
                ELSE [c EXCEPT !.pc = "handshake", !.conn = answered,
                               !.secWebsocketKey = generated, !.request = r, !.resp = read,
                               !.err = IF read = NilResp THEN "ErrRead" ELSE "nil"]
  /\ UNCHANGED <<returned, readerVars, optionVars>>

(***************************************************************************)
(* connector.handshake after request has returned: the response is         *)
(* checked, the subprotocol chosen, the Conn made and the deadline         *)
(* cleared.  client, resp and err are the three values it returns.         *)
(***************************************************************************)
handshake ==
  /\ connector.pc = "handshake"
  /\ \E clear \in BOOLEAN :
       LET c == connector
           sub == getSubProtocol(c.RequestHeader, c.resp)
           tail == [c EXCEPT !.pc = "tail"]
       IN  connector' =
             IF c.err # "nil" THEN tail
             ELSE IF checkHeaders(c.secWebsocketKey, c.resp) # "nil"
             THEN [tail EXCEPT !.err = checkHeaders(c.secWebsocketKey, c.resp)]
             ELSE IF sub.err # "nil"
             THEN [tail EXCEPT !.err = sub.err]
             ELSE [tail EXCEPT !.client = "Conn", !.subprotocol = sub.subprotocol,
                               !.conn = SetDeadline(c.conn, "none", clear),
                               !.err = IF clear THEN "nil" ELSE "ErrDeadline"]
  /\ UNCHANGED <<returned, readerVars, optionVars>>

(***************************************************************************)
(* The end of NewClient and of NewClientFromConn: the transport is closed  *)
(* if handshake returned an error, and the three values are returned.      *)
(***************************************************************************)
\* the end of NewClient, had it closed the transport only when there is no Conn
handshakeReturn_UnlessConn ==
  /\ connector.pc = "tail"
  /\ Return([connector EXCEPT !.conn = IF connector.client = "nil" THEN Close(@) ELSE @],
            connector.client, connector.resp, connector.err)
  /\ UNCHANGED <<readerVars, optionVars>>

handshakeReturn ==
  /\ connector.pc = "tail"
  /\ Return([connector EXCEPT !.conn = IF connector.err # "nil" THEN Close(@) ELSE @],
            connector.client, connector.resp, connector.err)
  /\ UNCHANGED <<readerVars, optionVars>>

ClientInit ==
  /\ Connection(<<FALSE, FALSE, FALSE, FALSE, FALSE, FALSE>>, 1)
  /\ \E h \in RequestHeaders : connector = Fresh(h)
  /\ returned = NoReturn
  /\ given = NoOption /\ option = NoOption /\ snapshot = NoOption

ClientNext == NewClient \/ NewClientFromConn \/ request \/ handshake \/ handshakeReturn

ClientSpec == ClientInit /\ [][ClientNext]_vars

(***************************************************************************)
(* The options: initServerOption, initClientOption and getConfig.  An      *)
(* option handed over is a pointer: nil, or the address of a value.        *)
(***************************************************************************)
ZeroDeflate ==
  [Enabled |-> FALSE, Level |-> 0, Threshold |-> 0, PoolSize |-> 0,
   ServerMaxWindowBits |-> 0, ClientMaxWindowBits |-> 0]

\* an http.Header is a map from the keys as they are stored to values: nil, or a set
\* of <<key, value>> entries.  ResponseHeader is a field of ServerOption alone.
NilHeader == [nil |-> TRUE, map |-> {}]

Header0 == [nil |-> FALSE, map |-> {}]

\* textproto.CanonicalMIMEHeaderKey on the keys of the model: the first letter and
\* every letter after a hyphen in upper case, the others in lower case
CanonicalMIMEHeaderKey(k) ==
  CASE k \in {"Upgrade", "upgrade", "UPGRADE"} -> "Upgrade"
    [] k \in {"Connection", "connection"} -> "Connection"
    [] k \in {"Sec-WebSocket-Accept", "Sec-Websocket-Accept"} -> "Sec-Websocket-Accept"
    [] k \in {"Sec-WebSocket-Extensions", "Sec-Websocket-Extensions"}
         -> "Sec-Websocket-Extensions"
    [] k \in {"Sec-WebSocket-Protocol", "Sec-Websocket-Protocol", "sec-websocket-protocol"}
         -> "Sec-Websocket-Protocol"
    [] k \in {"X-Trace", "x-trace"} -> "X-Trace"
    [] OTHER -> k

\* http.Header.Del: the entry stored under the canonical form of the key is deleted
Del(h, key) == [h EXCEPT !.map = {e \in @ : e[1] # CanonicalMIMEHeaderKey(key)}]

\* the Key of internal.Upgrade, Connection, SecWebSocketAccept, SecWebSocketExtensions
\* and SecWebSocketProtocol
ProtectedKeys == <<"Upgrade", "Connection", "Sec-WebSocket-Accept",
                   "Sec-WebSocket-Extensions", "Sec-WebSocket-Protocol">>

\* ServerOption.deleteProtectedHeaders
deleteProtectedHeaders(h) ==
  Del(Del(Del(Del(Del(h, ProtectedKeys[1]), ProtectedKeys[2]), ProtectedKeys[3]),
          ProtectedKeys[4]), ProtectedKeys[5])

\* new(ServerOption), new(ClientOption): every field has its zero value
ZeroOption ==
  [ReadAsyncEnabled |-> FALSE, ReadAsyncGoLimit |-> 0, ReadMaxPayloadSize |-> 0,
   ReadBufferSize |-> 0, WriteMaxPayloadSize |-> 0, WriteBufferSize |-> 0,
   CheckUtf8Enabled |-> FALSE, HandshakeTimeout |-> 0, Recovery |-> "nil",
   PermessageDeflate |-> ZeroDeflate, ResponseHeader |-> NilHeader]

NilOption == [nil |-> TRUE, val |-> ZeroOption]

Ptr(o) == [nil |-> FALSE, val |-> o]

\* if c.X <= 0 { c.X = defaultX }, had it let zero stand
orDefault_Negative(v, d) == IF v < 0 THEN d ELSE v

\* if c.X <= 0 { c.X = defaultX }
orDefault(v, d) == IF v <= 0 THEN d ELSE v

\* the window bits, had a value out of range been moved to the nearer end of the range
windowBits_Nearest(b) == IF b < 8 THEN 8 ELSE IF b > 15 THEN 15 ELSE b

\* if bits < 8 || bits > 15 { bits = 15 }
windowBits(b) == IF b < 8 \/ b > 15 THEN 15 ELSE b

\* internal.ToBinaryNumber: the smallest power of two that is not below n
RECURSIVE Doubled(_, _)
Doubled(x, n) == IF x < n THEN Doubled(2 * x, n) ELSE x

ToBinaryNumber(n) == Doubled(1, n)

\* what initServerOption and initClientOption do alike, up to the compression block
initOption(c) ==
  LET o == IF c.nil THEN ZeroOption ELSE c.val
  IN  [o EXCEPT !.ReadMaxPayloadSize = orDefault(@, defaultReadMaxPayloadSize),
                !.ReadAsyncGoLimit = orDefault(@, defaultReadAsyncGoLimit),
                !.ReadBufferSize = orDefault(@, defaultReadBufferSize),
                !.WriteMaxPayloadSize = orDefault(@, defaultWriteMaxPayloadSize),
                !.WriteBufferSize = orDefault(@, defaultWriteBufferSize),
                !.HandshakeTimeout = orDefault(@, defaultHandshakeTimeout),
                !.Recovery = initRecovery(@)]

\* the compression block, entered only when compression is enabled
initDeflate(pd) ==
  [pd EXCEPT !.ServerMaxWindowBits = windowBits(@),
             !.ClientMaxWindowBits = windowBits(@),
             !.Threshold = orDefault(@, defaultCompressThreshold),
             !.Level = IF @ = 0 THEN defaultCompressLevel ELSE @]

initServerOption(c) ==
  LET o == initOption(c)
      h == IF o.ResponseHeader.nil THEN Header0 ELSE o.ResponseHeader
      d == IF o.PermessageDeflate.Enabled
           THEN [o EXCEPT !.PermessageDeflate =
                   [initDeflate(@) EXCEPT
                      !.PoolSize = ToBinaryNumber(orDefault(@, defaultCompressorPoolSize))]]
           ELSE o
  IN  [d EXCEPT !.ResponseHeader = deleteProtectedHeaders(h)]

initClientOption(c) ==
  LET o == initOption(c)
  IN  IF o.PermessageDeflate.Enabled
      THEN [o EXCEPT !.PermessageDeflate = [initDeflate(@) EXCEPT !.PoolSize = 1]]
      ELSE o

\* the Config initServerOption builds and ServerOption.getConfig returns, and the one
\* ClientOption.getConfig builds
getConfig(o) ==
  [ReadAsyncEnabled |-> o.ReadAsyncEnabled, ReadAsyncGoLimit |-> o.ReadAsyncGoLimit,
   ReadMaxPayloadSize |-> o.ReadMaxPayloadSize, ReadBufferSize |-> o.ReadBufferSize,
   WriteMaxPayloadSize |-> o.WriteMaxPayloadSize, WriteBufferSize |-> o.WriteBufferSize,
   CheckUtf8Enabled |-> o.CheckUtf8Enabled, Recovery |-> o.Recovery]

(***************************************************************************)
(* The options a caller hands over: nil; options with any mix of negative, *)
(* zero and positive sizes; options with any pair of window bits; options  *)
(* with any mix of threshold, level and pool size.                         *)
(***************************************************************************)
Sizes == {-1, 0, UserSize}

Bits == {0} \cup (LowBits..HighBits)

Levels == {-1, 0, UserLevel}

Pools == (-1)..MaxPool

SizeOptions ==
  {[ZeroOption EXCEPT !.ReadMaxPayloadSize = a, !.ReadAsyncGoLimit = b,
                      !.ReadBufferSize = c, !.WriteMaxPayloadSize = d,
                      !.WriteBufferSize = e, !.HandshakeTimeout = f] :
     a \in Sizes, b \in Sizes, c \in Sizes, d \in Sizes, e \in Sizes, f \in Sizes}

BitsOptions ==
  {[ZeroOption EXCEPT !.PermessageDeflate.Enabled = on,
                      !.PermessageDeflate.ServerMaxWindowBits = sb,
                      !.PermessageDeflate.ClientMaxWindowBits = cb,
                      !.Recovery = r, !.ReadAsyncEnabled = async] :
     on \in BOOLEAN, sb \in Bits, cb \in Bits, r \in {"nil", "recover"}, async \in BOOLEAN}

DeflateOptions ==
  {[ZeroOption EXCEPT !.PermessageDeflate.Enabled = on,
                      !.PermessageDeflate.Threshold = t,
                      !.PermessageDeflate.Level = l,
                      !.PermessageDeflate.PoolSize = p,
                      !.CheckUtf8Enabled = utf8] :
     on \in BOOLEAN, t \in Sizes, l \in Levels, p \in Pools, utf8 \in BOOLEAN}

\* the keys a user stores entries under, and the values
HeaderKeys == {"Upgrade", "upgrade", "Connection", "connection", "Sec-Websocket-Accept",
               "Sec-WebSocket-Accept", "Sec-Websocket-Extensions", "Sec-WebSocket-Protocol",
               "sec-websocket-protocol", "X-Trace"}

HeaderValues == {"a", "b"}

\* the maps of at most MaxHeaders entries: no two entries have the same key
HeaderMaps ==
  {m \in SUBSET (HeaderKeys \X HeaderValues) :
     /\ Cardinality(m) <= MaxHeaders
     /\ \A e1 \in m, e2 \in m : e1[1] = e2[1] => e1 = e2}

HeaderOptions ==
  {[ZeroOption EXCEPT !.ResponseHeader = [nil |-> FALSE, map |-> m]] : m \in HeaderMaps}

Givens ==
  {NilOption} \cup
  {Ptr(o) : o \in SizeOptions \cup BitsOptions \cup DeflateOptions \cup HeaderOptions}

\* a server is set up with the option
InitServer ==
  /\ option = NoOption
  /\ option' = [role |-> "server", val |-> initServerOption(given)]
  /\ UNCHANGED <<given, snapshot, readerVars, handshakeVars>>

\* a client is set up with the option
InitClient ==
  /\ option = NoOption
  /\ option' = [role |-> "client", val |-> initClientOption(given)]
  /\ UNCHANGED <<given, snapshot, readerVars, handshakeVars>>

\* the connection being made takes the Config of the initialised option
GetConfig ==
  /\ option # NoOption /\ snapshot = NoOption
  /\ snapshot' = getConfig(option.val)
  /\ UNCHANGED <<given, option, readerVars, handshakeVars>>

OptionInit ==
  /\ Connection(<<FALSE, FALSE, FALSE, FALSE, FALSE, FALSE>>, 1)
  /\ connector = NoConnector /\ returned = NoReturn
  /\ given \in Givens
  /\ option = NoOption /\ snapshot = NoOption

OptionNext == InitServer \/ InitClient \/ GetConfig

OptionSpec == OptionInit /\ [][OptionNext]_vars

(***************************************************************************)
(* Vocabulary of the properties.                                           *)
(***************************************************************************)
\* a readMessage step: the peer's next frame goes through readFrame
FrameStep == nFrames' = nFrames + 1

\* the frame read last was parsed and declares a length within the limit
Parsed(l) == l.io \in {"ok", "read"}

WithinLimit(l) == Parsed(l) /\ l.contentLength <= config.ReadMaxPayloadSize

NoReserved(h) == ~h.rsv1 /\ ~h.rsv2 /\ ~h.rsv3

IsControl(h) == h.opcode \in {OpcodeCloseConnection, OpcodePing, OpcodePong}

\* the handlers started by the last readMessage call
Handlers == {calls[i].h : i \in 1..Len(calls)}

\* the frame read last is a Ping or Pong that keeps every rule
ValidPingPong(h, l) ==
  /\ h.opcode \in {OpcodePing, OpcodePong}
  /\ h.fin /\ NoReserved(h) /\ h.mask = isServer
  /\ l.io = "ok" /\ l.contentLength <= ThresholdV1
  /\ l.contentLength <= config.ReadMaxPayloadSize

(***************************************************************************)
(* C1 Fragment reassembly: while the peer sends Data(fin=0),               *)
(* Continuation(fin=0)*, Continuation(fin=1) with the mask bit of its role *)
(* and no reserved bit, and the message fits ReadMaxPayloadSize, readFrame *)
(* returns no message and no error for every frame but the last, and for   *)
(* the last it returns the message with the opcode of the first frame and  *)
(* the frame payloads concatenated in arrival order.                       *)
(***************************************************************************)
C1_FragmentReassembly ==
  (sent.ctl = 0 /\ Len(sent.payload) <= config.ReadMaxPayloadSize) =>
     /\ sent.active => rf = [msg |-> NoMsg, err |-> Nil]
     /\ sent.done => rf = [msg |-> Message(sent.opcode, sent.payload), err |-> Nil]

C1_Witness ==
  /\ sent.done /\ sent.ctl = 0 /\ nFrames = 3
  /\ Len(sent.payload) >= 2 /\ sent.payload[1] # sent.payload[2]
  /\ fh.mask
  /\ rf.msg = Message(sent.opcode, sent.payload)

(***************************************************************************)
(* C2 Continuation rule violations: a Text or Binary frame read while a    *)
(* continuation is active, and a Continuation frame read while none is     *)
(* active, make readFrame return CloseProtocolError, and OnMessage is not  *)
(* called for it.  A frame is read once its header is parsed and its       *)
(* declared length is within ReadMaxPayloadSize.                           *)
(***************************************************************************)
C2_ContinuationViolation ==
  [][ ( /\ FrameStep
        /\ last'.io = "ok" /\ last'.contentLength <= config.ReadMaxPayloadSize
        /\ \/ fh'.opcode \in {OpcodeText, OpcodeBinary} /\ continuationFrame.initialized
           \/ fh'.opcode = OpcodeContinuation /\ ~continuationFrame.initialized )
      => ( /\ rf' = [msg |-> NoMsg, err |-> CloseProtocolError]
           /\ err' = CloseProtocolError
           /\ calls' = <<>> /\ held' = NoMsg ) ]_vars

\* a well-formed Binary frame with FIN=1 is refused because a Text message is in flight
C2_Witness ==
  /\ continuationFrame.initialized /\ continuationFrame.opcode = OpcodeText
  /\ fh.opcode = OpcodeBinary /\ fh.fin /\ NoReserved(fh) /\ fh.mask = isServer
  /\ last.io = "ok" /\ last.read = last.contentLength /\ last.contentLength > 0
  /\ rf.err = CloseProtocolError

(***************************************************************************)
(* C3 Every message readFrame returns, and every message handed to         *)
(* OnMessage, has opcode Text or Binary and at most ReadMaxPayloadSize     *)
(* bytes.                                                                  *)
(***************************************************************************)
DataMessage(opcode, data) ==
  opcode \in {OpcodeText, OpcodeBinary} /\ Len(data) <= config.ReadMaxPayloadSize

C3_DeliveredMessages ==
  /\ rf.msg # NoMsg => DataMessage(rf.msg.Opcode, rf.msg.Data)
  /\ held # NoMsg => DataMessage(held.Opcode, held.Data)
  /\ \A i \in 1..Len(calls) :
        calls[i].h = "OnMessage" => DataMessage(calls[i].opcode, calls[i].payload)

\* a reassembled message that fills the limit exactly
C3_Witness ==
  /\ rf.msg # NoMsg /\ Len(rf.msg.Data) = config.ReadMaxPayloadSize
  /\ last.exit = 145
  /\ "OnMessage" \in Handlers

(***************************************************************************)
(* C4 Message too large: a frame whose declared length exceeds             *)
(* ReadMaxPayloadSize makes readFrame return CloseMessageTooLarge before   *)
(* any payload byte is read; a fragmented message whose accumulated        *)
(* payload exceeds ReadMaxPayloadSize once a frame is appended makes       *)
(* readFrame return CloseMessageTooLarge at that frame, and no message is  *)
(* delivered.                                                              *)
(***************************************************************************)
C4_MessageTooLarge ==
  /\ (Parsed(last) /\ last.contentLength > config.ReadMaxPayloadSize) =>
        /\ rf = [msg |-> NoMsg, err |-> CloseMessageTooLarge]
        /\ last.read = 0
        /\ calls = <<>>
  /\ ( /\ sent.active \/ sent.done
       /\ last.contentLength <= config.ReadMaxPayloadSize
       /\ Len(sent.payload) > config.ReadMaxPayloadSize ) =>
        /\ rf = [msg |-> NoMsg, err |-> CloseMessageTooLarge]
        /\ err = CloseMessageTooLarge
        /\ calls = <<>> /\ held = NoMsg

\* a fragment that is within the limit by itself takes the message over the limit
C4_Witness ==
  /\ sent.active \/ sent.done
  /\ fh.opcode = OpcodeContinuation
  /\ last.contentLength > 0 /\ last.contentLength <= config.ReadMaxPayloadSize
  /\ last.read = last.contentLength
  /\ Len(sent.payload) > config.ReadMaxPayloadSize
  /\ rf.err = CloseMessageTooLarge

(***************************************************************************)
(* C5 Reserved bits: on a connection without a negotiated extension a      *)
(* frame, data or control, whose declared length is within                 *)
(* ReadMaxPayloadSize and that has RSV1, RSV2 or RSV3 set makes readFrame  *)
(* return CloseProtocolError; no payload is read, the continuation state   *)
(* is unchanged and no handler is called.                                  *)
(***************************************************************************)
C5_ReservedBits ==
  [][ ( /\ FrameStep
        /\ ~pdEnabled
        /\ WithinLimit(last')
        /\ ~NoReserved(fh') )
      => ( /\ rf' = [msg |-> NoMsg, err |-> CloseProtocolError]
           /\ err' = CloseProtocolError
           /\ last'.read = 0
           /\ continuationFrame' = continuationFrame
           /\ calls' = <<>> ) ]_vars

\* a Ping with RSV2 set arrives in the middle of a fragmented message
C5_Witness ==
  /\ ~pdEnabled
  /\ fh.rsv2 /\ fh.opcode = OpcodePing /\ fh.fin /\ fh.mask = isServer
  /\ last.io = "ok" /\ last.contentLength = 1
  /\ continuationFrame.initialized /\ Len(continuationFrame.buffer) = 1
  /\ rf.err = CloseProtocolError /\ last.read = 0

(***************************************************************************)
(* C6 RSV1 with compression: on a connection with permessage-deflate       *)
(* enabled, a Text or Binary first frame with RSV1=1, RSV2=RSV3=0, the     *)
(* mask bit of the peer's role and a length within the limit is accepted   *)
(* by the reader, not rejected as a protocol error.                        *)
(***************************************************************************)
C6_Rsv1Accepted ==
  ( /\ pdEnabled
    /\ last.io = "ok" /\ last.contentLength <= config.ReadMaxPayloadSize
    /\ fh.opcode \in {OpcodeText, OpcodeBinary}
    /\ fh.rsv1 /\ ~fh.rsv2 /\ ~fh.rsv3
    /\ fh.mask = isServer
    /\ ~continuationFrame.initialized )
  => rf.err # CloseProtocolError

(***************************************************************************)
(* C7 Mask versus role: of the frames that pass the length and             *)
(* reserved-bit checks, a server connection rejects those with MASK=0 and  *)
(* a client connection those with MASK=1, data and control alike, with     *)
(* CloseProtocolError and before any payload is read or any handler is     *)
(* called; a frame with the mask bit of the peer's role is never rejected  *)
(* by this check.                                                          *)
(***************************************************************************)
C7_MaskVersusRole ==
  (WithinLimit(last) /\ NoReserved(fh)) =>
     /\ fh.mask # isServer =>
           /\ rf = [msg |-> NoMsg, err |-> CloseProtocolError]
           /\ err = CloseProtocolError
           /\ last.read = 0
           /\ calls = <<>>
     /\ fh.mask = isServer => last.exit # 93

\* a client connection refuses a masked Pong that keeps every other rule
C7_Witness ==
  /\ ~isServer /\ fh.mask /\ fh.opcode = OpcodePong /\ fh.fin /\ NoReserved(fh)
  /\ WithinLimit(last) /\ last.io = "ok" /\ last.contentLength = 1
  /\ rf.err = CloseProtocolError /\ last.read = 0 /\ calls = <<>>

(***************************************************************************)
(* C8 Control frame policy, as claimed: every control frame with FIN=0,    *)
(* and every control frame that declares more than 125 bytes, is rejected  *)
(* with CloseProtocolError whatever ReadMaxPayloadSize is, and no handler  *)
(* is called for it.                                                       *)
(***************************************************************************)
C8_ControlPolicyAnyLimit ==
  ( /\ Parsed(last)
    /\ IsControl(fh)
    /\ ~fh.fin \/ last.contentLength > ThresholdV1 )
  => ( /\ rf = [msg |-> NoMsg, err |-> CloseProtocolError]
       /\ calls = <<>> )

(***************************************************************************)
(* C8 Control frame policy, amended: every control frame whose declared    *)
(* length is within ReadMaxPayloadSize and that has FIN=0 or declares more *)
(* than 125 bytes is rejected with CloseProtocolError, and no handler is   *)
(* called for it; a control frame that declares more than                  *)
(* ReadMaxPayloadSize bytes is rejected with CloseMessageTooLarge.         *)
(***************************************************************************)
C8_ControlPolicy ==
  ( /\ Parsed(last)
    /\ IsControl(fh)
    /\ ~fh.fin \/ last.contentLength > ThresholdV1 )
  => ( /\ rf = [ msg |-> NoMsg,
                 err |-> IF last.contentLength <= config.ReadMaxPayloadSize
                         THEN CloseProtocolError ELSE CloseMessageTooLarge ]
       /\ calls = <<>> )

\* a well-formed, unfragmented Ping of more than 125 bytes within the limit is refused
C8_Witness ==
  /\ fh.opcode = OpcodePing /\ fh.fin /\ NoReserved(fh) /\ fh.mask = isServer
  /\ last.io = "ok" /\ last.contentLength > ThresholdV1
  /\ last.contentLength <= config.ReadMaxPayloadSize
  /\ rf.err = CloseProtocolError /\ calls = <<>>

(***************************************************************************)
(* C9 Ping/Pong interleave: a valid Ping or Pong read while a continuation *)
(* is active calls OnPing/OnPong with the unmasked payload there and then, *)
(* and leaves the continuation state unchanged; the fragmented message is  *)
(* still delivered with its first opcode and its whole payload when its    *)
(* last Continuation frame arrives.                                        *)
(***************************************************************************)
C9_PingPongInterleave ==
  /\ [][ ( /\ FrameStep
           /\ continuationFrame.initialized
           /\ ValidPingPong(fh', last') )
         => ( /\ calls' = << Call(IF fh'.opcode = OpcodePing THEN "OnPing" ELSE "OnPong",
                                  fh'.opcode, last'.payload) >>
              /\ continuationFrame' = continuationFrame
              /\ rf' = [msg |-> NoMsg, err |-> Nil]
              /\ err' = Nil ) ]_vars
  /\ [] ( (sent.done /\ sent.ctl = 1 /\ Len(sent.payload) <= config.ReadMaxPayloadSize)
          => rf = [msg |-> Message(sent.opcode, sent.payload), err |-> Nil] )

\* a masked Ping("p") went between the two fragments of a message that is now delivered
C9_Witness ==
  /\ sent.done /\ sent.ctl = 1 /\ nFrames = 3
  /\ isServer /\ fh.mask
  /\ Len(sent.payload) = 2
  /\ rf.msg = Message(sent.opcode, sent.payload)

(***************************************************************************)
(* C10 UTF-8 gate: with CheckUtf8Enabled, a completed Text message whose   *)
(* payload is not valid UTF-8 is not passed to OnMessage, in sync and in   *)
(* async mode, and emitMessage returns an error that carries               *)
(* CloseUnsupportedData; Binary messages, and every message when           *)
(* CheckUtf8Enabled is off, are dispatched.                                *)
(***************************************************************************)
Rejected1007 ==
  /\ err.code = CloseUnsupportedData.code /\ err # CloseUnsupportedData
  /\ "OnMessage" \notin Handlers
  /\ held = NoMsg
  /\ pc = "done"

Dispatched(msg) ==
  /\ err = Nil
  /\ \/ calls = <<Call("OnMessage", msg.Opcode, msg.Data)>>
     \/ pc = "emit" /\ held = msg /\ calls = <<>>

C10_Utf8Gate ==
  rf.msg # NoMsg =>
     IF config.CheckUtf8Enabled /\ rf.msg.Opcode = OpcodeText /\ ~Utf8Valid(rf.msg.Data)
     THEN Rejected1007
     ELSE Dispatched(rf.msg)

\* a Text message cut inside a character is refused; so is a lone continuation byte
C10_Witness ==
  /\ config.CheckUtf8Enabled /\ config.ParallelEnabled
  /\ rf.msg \in {Message(OpcodeText, <<195>>), Message(OpcodeText, <<169, 195>>)}
  /\ Rejected1007

(***************************************************************************)
(* C11 Sync-mode ordering: with ParallelEnabled off, OnMessage is called   *)
(* on the reader task, once for every message readFrame completes and      *)
(* emitMessage lets through the encoding check, in the order readFrame     *)
(* completed them; at most one OnMessage call is running, and readFrame    *)
(* is not called for the next frame while one is.                          *)
(***************************************************************************)
Accepted ==
  SelectSeq(completed, LAMBDA m : CheckEncoding(config.CheckUtf8Enabled, m.Opcode, m.Data))

C11_SyncOrdering ==
  /\ [](~config.ParallelEnabled =>
          /\ delivered = Accepted
          /\ readQueue = 0
          /\ running <= 1
          /\ running = 1 <=> pc = "handler")
  /\ [][ (~config.ParallelEnabled /\ FrameStep) => running = 0 ]_vars

\* the second of two different messages is in OnMessage, the first call has returned
C11_Witness ==
  /\ ~config.ParallelEnabled
  /\ Len(completed) = 2 /\ completed[1] # completed[2]
  /\ delivered = completed
  /\ pc = "handler" /\ running = 1
  /\ ret.recovery /\ ~ret.panicked

(***************************************************************************)
(* C12 Async bounded parallelism: with ParallelEnabled on, the OnMessage   *)
(* calls running never number more than ParallelGolimit, the capacity of   *)
(* readQueue.  A message that completes while that many are running is     *)
(* held by the reader, blocked in emitMessage; the reader reads no frame   *)
(* while it is blocked, and it leaves emitMessage, starting OnMessage for  *)
(* the held message, only after a running call has ended.                  *)
(***************************************************************************)
C12_BoundedParallelism ==
  /\ [](config.ParallelEnabled =>
          /\ running <= config.ParallelGolimit
          /\ running <= readQueue /\ readQueue <= config.ParallelGolimit
          /\ pc = "emit" => held # NoMsg /\ delivered \o <<held>> = Accepted)
  /\ [][ config.ParallelEnabled =>
           /\ FrameStep => pc = "read"
           /\ ( /\ FrameStep /\ running = config.ParallelGolimit
                /\ rf'.msg # NoMsg /\ err' = Nil )
              => pc' = "emit" /\ held' = rf'.msg /\ running' = running
           /\ (pc = "emit" /\ pc' # "emit")
              => /\ running < config.ParallelGolimit
                 /\ delivered' = Append(delivered, held) ]_vars

\* the reader is blocked with the second message while the first is in OnMessage
C12_Witness ==
  /\ config.ParallelEnabled
  /\ pc = "emit" /\ held # NoMsg
  /\ running = config.ParallelGolimit /\ readQueue = config.ParallelGolimit
  /\ Len(delivered) = config.ParallelGolimit
  /\ nFrames = Len(delivered) + 1

(***************************************************************************)
(* C13 Handler recovery: whatever Recovery the option initialisation left  *)
(* in the configuration, the function of the user or the one put in place  *)
(* of a nil, when OnMessage panics the Recovery function is called, the    *)
(* panic does not leave dispatch, and a reader that called dispatch itself *)
(* gets no error and goes on to read the next frame.                       *)
(***************************************************************************)
\* a dispatch call comes to its end
DispatchEnds == running' = running - 1

C13_HandlerRecovery ==
  [][ (DispatchEnds /\ ret'.panicked) =>
         /\ ret'.recovery
         /\ ~ret'.propagated
         /\ pc = "handler" => pc' = "read" /\ err' = Nil ]_vars

(***************************************************************************)
(* C14 Client response validation: handshake makes a Conn only if the      *)
(* response has status 101, a Connection header with the item Upgrade, an  *)
(* Upgrade header equal to websocket whatever the case, and the            *)
(* Sec-WebSocket-Accept computed from the Sec-WebSocket-Key of the request *)
(* that went out; a response that misses one of the four ends the          *)
(* handshake with ErrHandshake and without a Conn.                         *)
(***************************************************************************)
ValidUpgrade(c) ==
  /\ c.resp.StatusCode = StatusSwitchingProtocols
  /\ \E i \in 1..Len(c.resp.Connection) : ToLower(c.resp.Connection[i]) = "upgrade"
  /\ Len(c.resp.Upgrade) = 1 /\ ToLower(c.resp.Upgrade[1]) = "websocket"
  /\ c.request.Key # "" /\ c.resp.Accept = ComputeAcceptKey(c.request.Key)

\* handshake has come to its return statement
Handshaken == connector.pc \in {"tail", "returned"}

C14_ResponseValidation ==
  /\ connector.client # "nil" => ValidUpgrade(connector)
  /\ returned.client # "nil" => ValidUpgrade(connector)
  /\ (Handshaken /\ connector.resp # NilResp /\ ~ValidUpgrade(connector)) =>
        connector.err = "ErrHandshake" /\ connector.client = "nil"
  /\ (connector.pc = "returned" /\ connector.resp # NilResp /\ ~ValidUpgrade(connector)) =>
        returned.err = "ErrHandshake" /\ returned.client = "nil"

\* the response is right but for an accept value computed from another key
C14_Witness ==
  /\ connector.pc = "returned"
  /\ connector.resp # NilResp
  /\ connector.resp.StatusCode = StatusSwitchingProtocols
  /\ connector.resp.Connection = <<"keep-alive", "upgrade">>
  /\ connector.resp.Upgrade = <<"WebSocket">>
  /\ connector.resp.Accept \in {ComputeAcceptKey(k) : k \in Keys \ {connector.request.Key}}
  /\ connector.RequestHeader.Key = UserKey
  /\ returned.err = "ErrHandshake" /\ returned.client = "nil"

(***************************************************************************)
(* C15 Client subprotocol negotiation: when RequestHeader names at least   *)
(* one subprotocol and the response, valid otherwise, names none of them,  *)
(* the handshake ends with ErrSubprotocolNegotiation and without a Conn;   *)
(* when it makes a Conn, the subprotocol of the Conn is one the request    *)
(* and the response both name; when RequestHeader names none, the          *)
(* handshake never ends with ErrSubprotocolNegotiation.                    *)
(***************************************************************************)
Names(v) == {v[i] : i \in 1..Len(v)} \ {""}

C15_SubprotocolNegotiation ==
  LET requested == Names(connector.RequestHeader.Protocol)
      named == Names(connector.resp.Protocol)
  IN  /\ ( /\ Handshaken /\ connector.resp # NilResp /\ ValidUpgrade(connector)
           /\ requested # {} /\ requested \cap named = {} )
         => /\ connector.err = "ErrSubprotocolNegotiation" /\ connector.client = "nil"
            /\ connector.pc = "returned"
               => returned.err = "ErrSubprotocolNegotiation" /\ returned.client = "nil"
      /\ ((connector.client # "nil" \/ returned.client # "nil") /\ requested # {})
         => connector.subprotocol \in requested \cap named
      /\ requested = {}
         => /\ connector.err # "ErrSubprotocolNegotiation"
            /\ returned.err # "ErrSubprotocolNegotiation"
            /\ connector.subprotocol = ""

\* two subprotocols are asked for and the server names a third
C15_Witness ==
  /\ connector.pc = "returned"
  /\ connector.RequestHeader.Protocol = <<"chat.v2", "chat.v1">>
  /\ ValidUpgrade(connector)
  /\ connector.resp.Protocol = <<"other">>
  /\ returned.err = "ErrSubprotocolNegotiation" /\ returned.client = "nil"

(***************************************************************************)
(* C16 Handshake failure closes the transport: when NewClient, the dial    *)
(* done, or NewClientFromConn returns an error, whether the request could  *)
(* not be written in time, the response could not be read or was refused,  *)
(* the subprotocol did not match or the deadline could not be cleared,     *)
(* the transport has been closed, as the last thing done to it.  When      *)
(* they return no error the transport is open and was never closed, the    *)
(* deadline was set before the request was written, and it is cleared.     *)
(***************************************************************************)
\* the position of the first call op made on the transport, 0 if there is none
First(ops, op) ==
  IF \E i \in 1..Len(ops) : ops[i] = op
  THEN CHOOSE i \in 1..Len(ops) : ops[i] = op /\ \A k \in 1..(i - 1) : ops[k] # op
  ELSE 0

C16_FailureClosesTransport ==
  LET conn == connector.conn
  IN  connector.pc = "returned" =>
        /\ (returned.err # "nil" /\ conn.state # "none") =>
              /\ conn.state = "closed"
              /\ conn.ops[Len(conn.ops)] = "Close"
        /\ returned.err = "nil" =>
              /\ conn.state = "open"
              /\ First(conn.ops, "Close") = 0
              /\ First(conn.ops, "SetDeadline") > 0
              /\ First(conn.ops, "SetDeadline") < First(conn.ops, "Write")
              /\ conn.ops[Len(conn.ops)] = "ClearDeadline"
              /\ conn.deadline = "none"

\* the response is accepted, the deadline cannot be cleared, the transport is closed
C16_Witness ==
  /\ connector.pc = "returned"
  /\ returned.err = "ErrDeadline"
  /\ ValidUpgrade(connector)
  /\ connector.conn.state = "closed"
  /\ connector.conn.deadline = "handshake"

(***************************************************************************)
(* C17 Handshake error return shape: when NewClient or NewClientFromConn   *)
(* returns an error the Conn returned is nil; when the error is that of a  *)
(* refused response, ErrHandshake or ErrSubprotocolNegotiation, the        *)
(* response returned is the one the server sent; a Conn is returned only   *)
(* together with a nil error.                                              *)
(***************************************************************************)
C17_ErrorReturnShape ==
  connector.pc = "returned" =>
    /\ returned.err # "nil" => returned.client = "nil"
    /\ returned.err \in {"ErrHandshake", "ErrSubprotocolNegotiation"} =>
          returned.resp # NilResp /\ returned.resp = connector.resp
    /\ returned.client # "nil" => returned.err = "nil"

(***************************************************************************)
(* C18 Unsupported URL scheme: NewClient with an Addr that url.Parse       *)
(* accepts and whose scheme is neither ws nor wss returns                  *)
(* ErrUnsupportedProtocol, a nil Conn and a nil response, and has made no  *)
(* dialer and opened no transport; with the scheme ws or wss it never      *)
(* returns ErrUnsupportedProtocol.                                         *)
(***************************************************************************)
C18_UnsupportedScheme ==
  (connector.pc = "returned" /\ connector.entry = "NewClient") =>
    /\ connector.scheme \notin {"invalid", "ws", "wss"} =>
          /\ returned = [client |-> "nil", resp |-> NilResp, err |-> "ErrUnsupportedProtocol"]
          /\ connector.dialers = 0
          /\ connector.conn = NoConn
    /\ connector.scheme \in {"ws", "wss"} => returned.err # "ErrUnsupportedProtocol"

\* an http address is refused before anything is dialled
C18_Witness ==
  /\ connector.pc = "returned" /\ connector.entry = "NewClient"
  /\ connector.scheme = "http"
  /\ returned.err = "ErrUnsupportedProtocol"
  /\ connector.dialers = 0 /\ connector.conn.ops = <<>>

(***************************************************************************)
(* C19 Window bits normalisation, as claimed: after initServerOption or    *)
(* initClientOption, whatever option was handed over, ServerMaxWindowBits  *)
(* and ClientMaxWindowBits lie in 8..15; a value handed over in that range *)
(* is kept and any other value is replaced by 15.                          *)
(***************************************************************************)
Normalised(before, after) ==
  /\ after \in 8..15
  /\ after = IF before \in 8..15 THEN before ELSE 15

C19_WindowBitsAnyOption ==
  option # NoOption =>
    /\ Normalised(given.val.PermessageDeflate.ServerMaxWindowBits,
                  option.val.PermessageDeflate.ServerMaxWindowBits)
    /\ Normalised(given.val.PermessageDeflate.ClientMaxWindowBits,
                  option.val.PermessageDeflate.ClientMaxWindowBits)

(***************************************************************************)
(* C19 as the code has it: the window bits are normalised in that way when *)
(* PermessageDeflate.Enabled is set; when it is not, both values are left  *)
(* as they were handed over.                                               *)
(***************************************************************************)
C19_WindowBits ==
  option # NoOption =>
    LET before == given.val.PermessageDeflate
        after == option.val.PermessageDeflate
    IN  IF before.Enabled
        THEN /\ Normalised(before.ServerMaxWindowBits, after.ServerMaxWindowBits)
             /\ Normalised(before.ClientMaxWindowBits, after.ClientMaxWindowBits)
        ELSE /\ after.ServerMaxWindowBits = before.ServerMaxWindowBits
             /\ after.ClientMaxWindowBits = before.ClientMaxWindowBits

\* compression is on, the server bits are out of range and the client bits in range
C19_Witness ==
  /\ option # NoOption /\ option.role = "server"
  /\ given.val.PermessageDeflate.Enabled
  /\ given.val.PermessageDeflate.ServerMaxWindowBits = 0
  /\ given.val.PermessageDeflate.ClientMaxWindowBits = 12
  /\ option.val.PermessageDeflate.ServerMaxWindowBits = 15
  /\ option.val.PermessageDeflate.ClientMaxWindowBits = 12

(***************************************************************************)
(* C20 Option defaults, as claimed: after initServerOption or              *)
(* initClientOption, for a nil option too, every field that was zero has   *)
(* its documented default: ReadBufferSize 4096, WriteBufferSize 4096,      *)
(* ReadMaxPayloadSize 16 MiB, WriteMaxPayloadSize 16 MiB, HandshakeTimeout *)
(* 5 s, ReadAsyncGoLimit 8, Threshold 512, Level best-speed, PoolSize 32   *)
(* on a server and 1 on a client; a strictly positive size, limit or       *)
(* timeout of the user is kept; the Config of getConfig has the values of  *)
(* the initialised option.                                                 *)
(***************************************************************************)
\* the documented defaults; the timeout in milliseconds, the level as flate numbers it
Documented ==
  [ReadBufferSize |-> 4096, WriteBufferSize |-> 4096, ReadMaxPayloadSize |-> 16777216,
   WriteMaxPayloadSize |-> 16777216, HandshakeTimeout |-> 5000, ReadAsyncGoLimit |-> 8,
   Threshold |-> 512, Level |-> 1, PoolSize |-> [server |-> 32, client |-> 1]]

SizeFields == {"ReadBufferSize", "WriteBufferSize", "ReadMaxPayloadSize",
               "WriteMaxPayloadSize", "HandshakeTimeout", "ReadAsyncGoLimit"}

SizesDefaulted ==
  \A f \in SizeFields :
     /\ given.val[f] = 0 => option.val[f] = Documented[f]
     /\ given.val[f] > 0 => option.val[f] = given.val[f]

DeflateDefaulted ==
  LET before == given.val.PermessageDeflate
      after == option.val.PermessageDeflate
  IN  /\ before.Threshold = 0 => after.Threshold = Documented.Threshold
      /\ before.Level = 0 => after.Level = Documented.Level
      /\ before.PoolSize = 0 => after.PoolSize = Documented.PoolSize[option.role]

SnapshotAgrees ==
  snapshot # NoOption =>
     /\ \A f \in SizeFields \ {"HandshakeTimeout"} : snapshot[f] = option.val[f]
     /\ snapshot.ReadAsyncEnabled = option.val.ReadAsyncEnabled
     /\ snapshot.CheckUtf8Enabled = option.val.CheckUtf8Enabled
     /\ snapshot.Recovery = option.val.Recovery

C20_DefaultsAnyOption ==
  option # NoOption => SizesDefaulted /\ DeflateDefaulted /\ SnapshotAgrees

(***************************************************************************)
(* C20 as the code has it: the size, limit and timeout fields are as       *)
(* claimed, and so is the Config; Threshold, Level and PoolSize get their  *)
(* defaults when PermessageDeflate.Enabled is set, and are left as they    *)
(* were handed over when it is not.                                        *)
(***************************************************************************)
C20_Defaults ==
  option # NoOption =>
    /\ SizesDefaulted
    /\ SnapshotAgrees
    /\ IF given.val.PermessageDeflate.Enabled
       THEN DeflateDefaulted
       ELSE /\ option.val.PermessageDeflate.Threshold = given.val.PermessageDeflate.Threshold
            /\ option.val.PermessageDeflate.Level = given.val.PermessageDeflate.Level
            /\ option.val.PermessageDeflate.PoolSize = given.val.PermessageDeflate.PoolSize

\* a server option with compression on and nothing else set, and its Config
C20_Witness ==
  /\ option # NoOption /\ option.role = "server" /\ snapshot # NoOption
  /\ given.val = [ZeroOption EXCEPT !.PermessageDeflate.Enabled = TRUE]
  /\ option.val.PermessageDeflate.PoolSize = 32
  /\ option.val.PermessageDeflate.Threshold = 512
  /\ option.val.HandshakeTimeout = 5000
  /\ snapshot.ReadMaxPayloadSize = 16777216 /\ snapshot.ReadAsyncGoLimit = 8

(***************************************************************************)
(* C21 Protected response headers: after initServerOption, whatever        *)
(* ResponseHeader the user gave, the map has no entry for Upgrade,         *)
(* Connection, Sec-WebSocket-Accept, Sec-WebSocket-Extensions or           *)
(* Sec-WebSocket-Protocol under any spelling the user stored it with, and  *)
(* every other entry the user gave is there as it was.                     *)
(***************************************************************************)
\* the keys of the model that spell one of the five protected names
Spellings ==
  {"Upgrade", "upgrade", "Connection", "connection", "Sec-Websocket-Accept",
   "Sec-WebSocket-Accept", "Sec-Websocket-Extensions", "Sec-WebSocket-Protocol",
   "sec-websocket-protocol"}

C21_ProtectedHeaders ==
  (option # NoOption /\ option.role = "server") =>
     /\ \A e \in option.val.ResponseHeader.map : e[1] \notin Spellings
     /\ option.val.ResponseHeader.map =
           {e \in given.val.ResponseHeader.map : e[1] \notin Spellings}

(***************************************************************************)
(* C22 Continuation state reset: right after a readFrame call that         *)
(* delivered the message ended by a FIN=1 Continuation frame, and right    *)
(* after a readFrame call that returned CloseProtocolError or              *)
(* CloseMessageTooLarge, continuationFrame is not initialized.             *)
(***************************************************************************)
C22_ContinuationReset ==
  /\ (fh.opcode = OpcodeContinuation /\ fh.fin /\ rf.msg # NoMsg)
        => ~continuationFrame.initialized
  /\ rf.err \in {CloseProtocolError, CloseMessageTooLarge}
        => ~continuationFrame.initialized

(***************************************************************************)
(* C23 Pooled buffer ownership in readFrame: a readFrame call that took a  *)
(* payload buffer from binaryPool either gave it back exactly once and     *)
(* returned no Message that holds it (a fragment, a continuation-rule      *)
(* error, a read error, a too-large error) or handed it over in the        *)
(* single-frame Message it returned and did not give it back; a call that  *)
(* took no buffer gave none back and returned none.                        *)
(***************************************************************************)
C23_BufferOwnership ==
  /\ pool.released \in {0, 1}
  /\ pool.acquired =>
        /\ pool.released = 1 <=> ~pool.returned
        /\ pool.returned <=>
              (rf.msg # NoMsg /\ fh.fin /\ fh.opcode \in {OpcodeText, OpcodeBinary})
        /\ (rf.err # Nil \/ ~fh.fin \/ fh.opcode = OpcodeContinuation) => pool.released = 1
  /\ ~pool.acquired => pool.released = 0 /\ ~pool.returned
  /\ pool.acquired <=>
        (last.exit > 0 /\ Parsed(last) /\ rf.err \notin {CloseUnsupportedData} /\ isDataFrame(fh.opcode)
         /\ WithinLimit(last) /\ NoReserved(fh) /\ fh.mask = isServer)

\* a single-frame Text message of one byte leaves readFrame with the buffer
C23_Witness ==
  /\ pool.acquired /\ pool.returned /\ pool.released = 0
  /\ rf.msg # NoMsg /\ Len(rf.msg.Data) = 1
  /\ fh.fin /\ fh.opcode = OpcodeText

====
